---- MODULE Spec2Model ----
(***************************************************************************)
(* Model of the ticker connection manager, the React hook                  *)
(* useCoinbaseTicker (src/src/hooks/useCoinbaseTicker.ts).                 *)
(*                                                                         *)
(* The hook's React state and refs are the variables of the same name.     *)
(* Every handler of the hook is an operator from a state record to a state *)
(* record (connect, startFallback, stopFallback, ...), so that a handler   *)
(* that calls another one is the composition of the two.  The browser      *)
(* (WebSocket objects, timers, in-flight HTTP requests) is the             *)
(* environment: it delivers socket events, fires pending timers and        *)
(* resolves requests in any order, one handler at a time (run to           *)
(* completion).                                                            *)
(***************************************************************************)
EXTENDS Integers, Sequences, FiniteSets, TLC

(* ------------------------------ bounds --------------------------------- *)
\* sockets the model lets the hook construct in one run
MaxSockets == 3
\* effect runs (start) in one run: the mount plus MaxEpochs - 1 switches
MaxEpochs == 2
\* pending untracked timers / leaked intervals of one kind and one epoch
MaxLeaked == 1
\* HTTP polls in flight at once for one epoch
MaxInflight == 1

(* ------------------------- program constants --------------------------- *)
MaxAttempts == 2
NormalClosure == 1000
NoStatusReceived == 1005
AbnormalClosure == 1006
BaseDelay == 10000
MaxJitter == 2000
MaxDelay == 30000
SettleDelay == 1000
WatchdogDelay == 15000
WatchdogRetryDelay == 3000
CreationRetryDelay == 5000
PollInterval == 5000

Instruments == {"BTC-USD", "ETH-USD"}

(* --------------------------- JS values --------------------------------- *)
\* a JSON field that is absent, or a string (a sequence of characters)
Undefined == [t |-> "undefined", s |-> << >>]
Str(chars) == [t |-> "string", s |-> chars]

\* JS numbers as the hook sees them: NaN, Infinity, or the decimal
\* m * 10^(-e) with no trailing zero in the fraction
NaN == [k |-> "NaN", m |-> 0, e |-> 0]
Infinity == [k |-> "Infinity", m |-> 0, e |-> 0]
Num(m, e) == [k |-> "num", m |-> m, e |-> e]
NullPrice == [k |-> "null", m |-> 0, e |-> 0]

Digits == {"0", "1", "2", "3", "4", "5", "6", "7", "8", "9"}
DigitVal(c) == CASE c = "0" -> 0 [] c = "1" -> 1 [] c = "2" -> 2 [] c = "3" -> 3
                 [] c = "4" -> 4 [] c = "5" -> 5 [] c = "6" -> 6 [] c = "7" -> 7
                 [] c = "8" -> 8 [] c = "9" -> 9

\* length of the longest prefix of cs, from position i on, made of digits
RECURSIVE DigitRun(_, _)
DigitRun(cs, i) ==
    IF i <= Len(cs) /\ cs[i] \in Digits THEN 1 + DigitRun(cs, i + 1) ELSE 0

\* value of the digits cs[i .. i+n-1] appended to the accumulator acc
RECURSIVE DigitsValue(_, _, _, _)
DigitsValue(cs, i, n, acc) ==
    IF n = 0 THEN acc ELSE DigitsValue(cs, i + 1, n - 1, acc * 10 + DigitVal(cs[i]))

RECURSIVE Normalize(_, _)
Normalize(m, e) ==
    IF e > 0 /\ m % 10 = 0 THEN Normalize(m \div 10, e - 1) ELSE Num(m, e)

InfinityChars == <<"I", "n", "f", "i", "n", "i", "t", "y">>

IsPrefix(p, cs) == Len(p) <= Len(cs) /\ SubSeq(cs, 1, Len(p)) = p

\* parseFloat on a character sequence: the longest prefix that is a decimal
\* literal (digits, optionally a point and more digits) or "Infinity";
\* NaN when there is no such prefix.  Sign and exponent are not modelled
\* (no input below has them).
ParseChars(cs) ==
    IF IsPrefix(InfinityChars, cs) THEN Infinity
    ELSE LET ni == DigitRun(cs, 1)
             hasDot == ni + 1 <= Len(cs) /\ cs[ni + 1] = "."
             nf == IF hasDot THEN DigitRun(cs, ni + 2) ELSE 0
         IN  IF ni = 0 /\ nf = 0 THEN NaN
             ELSE Normalize(DigitsValue(cs, ni + 2, nf, DigitsValue(cs, 1, ni, 0)), nf)

\* parseFloat(v): an absent field is converted to the string "undefined"
parseFloat(v) == IF v.t = "undefined" THEN NaN ELSE ParseChars(v.s)

\* JS truthiness of a number and isNaN
Truthy(n) == n.k = "Infinity" \/ (n.k = "num" /\ n.m # 0)
isNaN(n) == n.k = "NaN"
IsFinite(n) == n.k = "num"

\* the price fields the feed and the REST endpoint deliver in the model
PriceFields ==
    { Str(<<"5", "0">>), Str(<<"5", "1", ".", "0">>), Str(<<"a", "b", "c">>),
      Str(<<"0">>), Undefined }

NullQuote == [product_id |-> "null", price |-> Undefined]

(* ------------------------------ state ---------------------------------- *)
VARIABLES
    \* React state of the hook (lines 30-33)
    price, tickerData, isConnected, error,
    \* refs (lines 34-39).  wsRef is the index of a socket, or Null.  A ref
    \* that holds a timer handle is Null or Handle; the timer or interval it
    \* refers to, while pending, is the entry of timers marked tracked
    wsRef, reconnectTimeoutRef, fallbackIntervalRef,
    reconnectAttemptsRef, fallbackStoppedRef, isConnectingRef,
    \* the component: mounted or not, the number of effect runs so far and the
    \* productId of each of them
    mounted, epoch, productIds,
    \* the browser: every call of the WebSocket constructor so far, the
    \* pending timers and intervals in the order they were armed, and the
    \* number of polls in flight of each epoch
    sockets, timers, inflight,
    \* history: the streaming budget was exhausted and no manual reconnect or
    \* start has happened since; and the handler that ran last
    gaveUp, last

vars == <<price, tickerData, isConnected, error, wsRef, reconnectTimeoutRef,
          fallbackIntervalRef, reconnectAttemptsRef, fallbackStoppedRef,
          isConnectingRef, mounted, epoch, productIds, sockets, timers,
          inflight, gaveUp, last>>

Null == 0
Handle == 1
NullError == "null"
DefaultProductId == "BTC-USD"
Epochs == 1..MaxEpochs

\* the program state as one record, the argument and result of every handler
State ==
    [price |-> price, tickerData |-> tickerData, isConnected |-> isConnected,
     error |-> error, wsRef |-> wsRef, reconnectTimeoutRef |-> reconnectTimeoutRef,
     fallbackIntervalRef |-> fallbackIntervalRef,
     reconnectAttemptsRef |-> reconnectAttemptsRef,
     fallbackStoppedRef |-> fallbackStoppedRef, isConnectingRef |-> isConnectingRef,
     mounted |-> mounted, epoch |-> epoch, productIds |-> productIds,
     sockets |-> sockets, timers |-> timers, inflight |-> inflight]

\* React drops a state update of a component that is no longer mounted
setPrice(s, v) == IF s.mounted THEN [s EXCEPT !.price = v] ELSE s
setTickerData(s, v) == IF s.mounted THEN [s EXCEPT !.tickerData = v] ELSE s
setIsConnected(s, v) == IF s.mounted THEN [s EXCEPT !.isConnected = v] ELSE s
setError(s, v) == IF s.mounted THEN [s EXCEPT !.error = v] ELSE s

(* ------------------------------ timers ---------------------------------- *)
Pow2(n) == IF n = 0 THEN 1 ELSE IF n = 1 THEN 2 ELSE IF n = 2 THEN 4 ELSE 8

Min(a, b) == IF a <= b THEN a ELSE b

\* the delay of the scheduled retry, for the jitter Math.random() * 2000
retryDelay(attempts, jitter) == Min(BaseDelay * Pow2(attempts) + jitter, MaxDelay)

\* a pending timer: its kind, the epoch whose closure it runs, the socket it
\* watches (watchdog only) and whether a ref holds its handle
Timer(kind, ep, sock, tracked) ==
    [kind |-> kind, ep |-> ep, sock |-> sock, tracked |-> tracked]

\* the least and the greatest delay a timer of a kind is armed with; the
\* retry is only ever scheduled with attemptCount 1
MinDelayOf(kind) ==
    CASE kind = "settle" -> SettleDelay
      [] kind = "watchdogRetry" -> WatchdogRetryDelay
      [] kind = "creationRetry" -> CreationRetryDelay
      [] kind = "poll" -> PollInterval
      [] kind = "watchdog" -> WatchdogDelay
      [] kind = "reconnect" -> retryDelay(1, 0)

MaxDelayOf(kind) ==
    IF kind = "reconnect" THEN retryDelay(1, MaxJitter) ELSE MinDelayOf(kind)

\* timers fire in the order of their expiry: the j-th pending timer cannot
\* fire while a timer armed before it with no longer a delay is pending
CanFire(q, j) ==
    \A i \in 1..(j - 1) : MaxDelayOf(q[i].kind) > MinDelayOf(q[j].kind)

setTimeout(s, tm) == [s EXCEPT !.timers = Append(@, tm)]

RemoveAt(q, j) == SubSeq(q, 1, j - 1) \o SubSeq(q, j + 1, Len(q))

IsTracked(kind, tm) == tm.kind = kind /\ tm.tracked
NotTracked(kind, tm) == ~IsTracked(kind, tm)

\* clearTimeout / clearInterval of the handle a ref holds
clearTracked(s, kind) ==
    LET Keep(tm) == NotTracked(kind, tm) IN [s EXCEPT !.timers = SelectSeq(@, Keep)]

\* the handle a ref holds is overwritten: the timer stays pending, untracked
untrack(q, kind) ==
    [j \in 1..Len(q) |-> IF IsTracked(kind, q[j]) THEN [q[j] EXCEPT !.tracked = FALSE]
                         ELSE q[j]]

\* clearTimeout(connectionTimeout) in the handlers of socket i
clearWatchdog(s, i) ==
    LET Keep(tm) == ~(tm.kind = "watchdog" /\ tm.sock = i)
    IN  [s EXCEPT !.timers = SelectSeq(@, Keep)]

(* ------------------------- polling fetcher ----------------------------- *)
\* fetchPriceData up to its first await: the two requests are issued
fetchPriceData(s, ep) == [s EXCEPT !.inflight[ep] = @ + 1]

\* the outcomes of the two requests: the quote request is rejected, answers
\* 429, answers another non-2xx status, or answers 200 with a body
Responses ==
    {[kind |-> k, price |-> Undefined] : k \in {"rejected", "429", "500"}}
      \cup {[kind |-> "200", price |-> p] : p \in PriceFields}

\* fetchPriceData that forgets the price when a fetch fails
fetchResolvedClearsPrice(s0, ep, r) ==
    LET s == [s0 EXCEPT !.inflight[ep] = @ - 1]
        productId == s.productIds[ep]
        currentPrice == parseFloat(r.price)
        failed == setError(setTickerData(setPrice(s, NullPrice), NullQuote),
                           "Unable to fetch price data")
    IN  IF r.kind = "rejected" THEN failed
        ELSE IF r.kind = "429" THEN setError(s, "Rate limited - reducing update frequency")
        ELSE IF r.kind # "200" THEN failed
        ELSE IF Truthy(currentPrice) /\ ~isNaN(currentPrice)
             THEN setIsConnected(
                    setError(
                      setTickerData(setPrice(s, currentPrice),
                                    [product_id |-> productId, price |-> r.price]),
                      NullError),
                    TRUE)
             ELSE failed

\* fetchPriceData that leaves the error on display when a fetch succeeds
fetchResolvedKeepsError(s0, ep, r) ==
    LET s == [s0 EXCEPT !.inflight[ep] = @ - 1]
        productId == s.productIds[ep]
        currentPrice == parseFloat(r.price)
    IN  IF r.kind = "rejected" THEN setError(s, "Unable to fetch price data")
        ELSE IF r.kind = "429" THEN setError(s, "Rate limited - reducing update frequency")
        ELSE IF r.kind # "200" THEN setError(s, "Unable to fetch price data")
        ELSE IF Truthy(currentPrice) /\ ~isNaN(currentPrice)
             THEN setIsConnected(
                    setTickerData(setPrice(s, currentPrice),
                                  [product_id |-> productId, price |-> r.price]),
                    TRUE)
             ELSE setError(s, "Unable to fetch price data")

\* fetchPriceData that stops polling when it is rate limited
fetchResolvedBacksOff(s0, ep, r) ==
    LET s == [s0 EXCEPT !.inflight[ep] = @ - 1]
        productId == s.productIds[ep]
        currentPrice == parseFloat(r.price)
    IN  IF r.kind = "rejected" THEN setError(s, "Unable to fetch price data")
        ELSE IF r.kind = "429"
        THEN [clearTracked(setError(s, "Rate limited - reducing update frequency"), "poll")
                EXCEPT !.fallbackIntervalRef = Null]
        ELSE IF r.kind # "200" THEN setError(s, "Unable to fetch price data")
        ELSE IF Truthy(currentPrice) /\ ~isNaN(currentPrice)
             THEN setIsConnected(
                    setError(
                      setTickerData(setPrice(s, currentPrice),
                                    [product_id |-> productId, price |-> r.price]),
                      NullError),
                    TRUE)
             ELSE setError(s, "Unable to fetch price data")

\* fetchPriceData from the first await on, for the response r
fetchResolved(s0, ep, r) ==
    LET s == [s0 EXCEPT !.inflight[ep] = @ - 1]
        productId == s.productIds[ep]
        currentPrice == parseFloat(r.price)
    IN  IF r.kind = "rejected" THEN setError(s, "Unable to fetch price data")
        ELSE IF r.kind = "429" THEN setError(s, "Rate limited - reducing update frequency")
        ELSE IF r.kind # "200" THEN setError(s, "Unable to fetch price data")
        ELSE IF Truthy(currentPrice) /\ ~isNaN(currentPrice)
             THEN setIsConnected(
                    setError(
                      setTickerData(setPrice(s, currentPrice),
                                    [product_id |-> productId, price |-> r.price]),
                      NullError),
                    TRUE)
             ELSE setError(s, "Unable to fetch price data")

\* the handle of the new interval replaces the one in the ref; an interval
\* the ref still held keeps running with no handle left to clear it
startFallback(s, ep) ==
    LET s1 == fetchPriceData([s EXCEPT !.fallbackStoppedRef = FALSE], ep)
    IN  [s1 EXCEPT !.timers = Append(untrack(@, "poll"), Timer("poll", ep, 0, TRUE)),
                   !.fallbackIntervalRef = Handle]

stopFallback(s) ==
    IF s.fallbackIntervalRef # Null
    THEN [clearTracked(s, "poll") EXCEPT !.fallbackIntervalRef = Null]
    ELSE s

(* ------------------------ reconnection policy -------------------------- *)
getErrorMessage(code) ==
    CASE code = 1001 -> "Server going away"
      [] code = 1002 -> "Protocol error"
      [] code = 1003 -> "Unsupported data type"
      [] code = 1005 -> "No status received"
      [] code = 1006 -> "Abnormal closure"
      [] code = 1007 -> "Invalid data"
      [] code = 1008 -> "Policy violation"
      [] code = 1009 -> "Message too large"
      [] code = 1011 -> "Server error"
      [] code = 1012 -> "Service restart"
      [] code = 1013 -> "Try again later"
      [] code = 1014 -> "Bad gateway"
      [] code = 1015 -> "TLS handshake failed"
      [] OTHER -> "Connection error (" \o ToString(code) \o ")"

(* -------------------------- streaming client --------------------------- *)
\* WebSocket.close() on a socket that is not CLOSED: readyState becomes
\* CLOSING at once and the close event follows later; closeReq records what
\* the close was asked with, which decides the code of that event
closeSocket(sk, req) ==
    IF sk.rs = "CONNECTING" THEN [sk EXCEPT !.rs = "CLOSING", !.closeReq = "abort"]
    ELSE IF sk.rs = "OPEN" THEN [sk EXCEPT !.rs = "CLOSING", !.closeReq = req]
    ELSE sk

\* a socket: its readyState, the epoch whose closure made it, how its close
\* was asked for, and the frames sent on its connection (forgotten with the
\* connection, when it is CLOSED)
NewSocket(ep) == [rs |-> "CONNECTING", ep |-> ep, closeReq |-> "none", sent |-> << >>]

\* a constructor call that threw: no socket exists, the call is only counted
ThrownSocket(ep) == [rs |-> "THROWN", ep |-> ep, closeReq |-> "none", sent |-> << >>]

\* a catch block that leaves the guard set
connectFailedKeepsGuard(s, ep) ==
    LET s1 == setError(s, "Failed to connect to price feed")
    IN  IF s1.reconnectAttemptsRef >= MaxAttempts
        THEN startFallback(s1, ep)
        ELSE setTimeout(s1, Timer("creationRetry", ep, 0, FALSE))

\* the catch block of connect
connectFailed(s, ep) ==
    LET s1 == setError([s EXCEPT !.isConnectingRef = FALSE],
                       "Failed to connect to price feed")
    IN  IF s1.reconnectAttemptsRef >= MaxAttempts
        THEN startFallback(s1, ep)
        ELSE setTimeout(s1, Timer("creationRetry", ep, 0, FALSE))

\* connect() without the closing of the existing connection
connectKeepsExisting(s, ep, throws) ==
    IF s.isConnectingRef THEN s
    ELSE LET s1 == setError([s EXCEPT !.isConnectingRef = TRUE], NullError)
             s2 == [stopFallback(s1) EXCEPT !.fallbackStoppedRef = FALSE]
             ws == Len(s2.sockets) + 1
         IN  IF throws
             THEN connectFailed([s2 EXCEPT !.sockets = Append(@, ThrownSocket(ep))], ep)
             ELSE setTimeout([s2 EXCEPT !.sockets = Append(@, NewSocket(ep)),
                                        !.wsRef = ws],
                             Timer("watchdog", ep, ws, FALSE))

\* connect() without the guard against a connect attempt in flight
connectUnguarded(s, ep, throws) ==
    LET s1 == setError([s EXCEPT !.isConnectingRef = TRUE], NullError)
        s2 == [stopFallback(s1) EXCEPT !.fallbackStoppedRef = FALSE]
        s3 == IF s2.wsRef # Null /\ s2.sockets[s2.wsRef].rs # "CLOSED"
              THEN [s2 EXCEPT !.sockets[s2.wsRef] = closeSocket(@, "nocode"),
                              !.wsRef = Null]
              ELSE s2
        ws == Len(s3.sockets) + 1
    IN  IF throws
        THEN connectFailed([s3 EXCEPT !.sockets = Append(@, ThrownSocket(ep))], ep)
        ELSE setTimeout([s3 EXCEPT !.sockets = Append(@, NewSocket(ep)),
                                   !.wsRef = ws],
                        Timer("watchdog", ep, ws, FALSE))

\* connect() that clears the error before it looks at the guard
connectClearsErrorFirst(s, ep, throws) ==
    LET s0 == setError(s, NullError)
    IN  IF s0.isConnectingRef THEN s0
        ELSE LET s1 == [s0 EXCEPT !.isConnectingRef = TRUE]
                 s2 == [stopFallback(s1) EXCEPT !.fallbackStoppedRef = FALSE]
                 s3 == IF s2.wsRef # Null /\ s2.sockets[s2.wsRef].rs # "CLOSED"
                       THEN [s2 EXCEPT !.sockets[s2.wsRef] = closeSocket(@, "nocode"),
                                       !.wsRef = Null]
                       ELSE s2
                 ws == Len(s3.sockets) + 1
             IN  IF throws
                 THEN connectFailed([s3 EXCEPT !.sockets = Append(@, ThrownSocket(ep))], ep)
                 ELSE setTimeout([s3 EXCEPT !.sockets = Append(@, NewSocket(ep)),
                                            !.wsRef = ws],
                                 Timer("watchdog", ep, ws, FALSE))

\* connect() of the closure of epoch ep; throws: the WebSocket constructor
\* throws
connect(s, ep, throws) ==
    IF s.isConnectingRef THEN s
    ELSE LET s1 == setError([s EXCEPT !.isConnectingRef = TRUE], NullError)
             s2 == [stopFallback(s1) EXCEPT !.fallbackStoppedRef = FALSE]
             s3 == IF s2.wsRef # Null /\ s2.sockets[s2.wsRef].rs # "CLOSED"
                   THEN [s2 EXCEPT !.sockets[s2.wsRef] = closeSocket(@, "nocode"),
                                   !.wsRef = Null]
                   ELSE s2
             ws == Len(s3.sockets) + 1
         IN  IF throws
             THEN connectFailed([s3 EXCEPT !.sockets = Append(@, ThrownSocket(ep))], ep)
             ELSE setTimeout([s3 EXCEPT !.sockets = Append(@, NewSocket(ep)),
                                        !.wsRef = ws],
                             Timer("watchdog", ep, ws, FALSE))

\* connectionTimeout of socket i, 15 s after its construction
connectionTimeout(s, i) ==
    LET ep == s.sockets[i].ep
    IN  IF s.sockets[i].rs = "CONNECTING"
        THEN setTimeout(
               setError([s EXCEPT !.sockets[i] = closeSocket(@, "nocode")],
                        "Connection timeout - retrying..."),
               Timer("watchdogRetry", ep, 0, FALSE))
        ELSE s

\* the subscribe request of the closure of productId
subscribeMessage(productId) ==
    [type |-> "subscribe", product_ids |-> <<productId>>, channels |-> <<"ticker">>]

\* ws.send on socket i; send does not throw on a socket that is OPEN
send(s, i, msg) == [s EXCEPT !.sockets[i].sent = Append(@, msg)]

\* onopen that resets the attempt counter
onopenResetsCounter(s, i) ==
    LET s1 == setIsConnected(clearWatchdog([s EXCEPT !.isConnectingRef = FALSE,
                                                     !.reconnectAttemptsRef = 0], i),
                             TRUE)
    IN  send(s1, i, subscribeMessage(s.productIds[s.sockets[i].ep]))

onopen(s, i) ==
    LET s1 == setIsConnected(clearWatchdog([s EXCEPT !.isConnectingRef = FALSE], i),
                             TRUE)
    IN  send(s1, i, subscribeMessage(s.productIds[s.sockets[i].ep]))

\* the frames the feed delivers: text that is not JSON, the JSON value null,
\* and JSON objects with a type field
Frames ==
    {[json |-> FALSE, isObject |-> FALSE, type |-> "none", product_id |-> "none",
      price |-> Undefined, message |-> Undefined],
     [json |-> TRUE, isObject |-> FALSE, type |-> "none", product_id |-> "none",
      price |-> Undefined, message |-> Undefined]}
    \cup {[json |-> TRUE, isObject |-> TRUE, type |-> "ticker", product_id |-> p,
           price |-> pr, message |-> Undefined] : p \in Instruments, pr \in PriceFields}
    \cup {[json |-> TRUE, isObject |-> TRUE, type |-> ty, product_id |-> "none",
           price |-> Undefined, message |-> Undefined] : ty \in {"subscriptions", "heartbeat"}}
    \cup {[json |-> TRUE, isObject |-> TRUE, type |-> "error", product_id |-> "none",
           price |-> Undefined, message |-> m] : m \in {Undefined, Str(<<"x">>)}}

\* the characters of a JSON string as one string
RECURSIVE Join(_)
Join(cs) == IF cs = << >> THEN "" ELSE Head(cs) \o Join(Tail(cs))

\* the text of a feed error: data.message || 'Unknown error'
feedErrorText(m) ==
    IF m.t = "undefined" \/ m.s = << >> THEN "Unknown error" ELSE Join(m.s)

\* onmessage that reports the text it cannot parse
onmessageReportsBadFrame(s, i, f) ==
    LET productId == s.productIds[s.sockets[i].ep] IN
    IF ~f.json \/ ~f.isObject THEN setError(s, "Invalid message received")
    ELSE IF f.type = "ticker" /\ f.product_id = productId
    THEN LET s1 == setTickerData(setPrice(s, parseFloat(f.price)),
                                 [product_id |-> f.product_id, price |-> f.price])
             s2 == [s1 EXCEPT !.reconnectAttemptsRef = 0]
         IN  IF ~s2.fallbackStoppedRef
             THEN [stopFallback(s2) EXCEPT !.fallbackStoppedRef = TRUE]
             ELSE s2
    ELSE IF f.type = "subscriptions" THEN s
    ELSE IF f.type = "error"
    THEN setError(s, "WebSocket error: " \o feedErrorText(f.message))
    ELSE s

\* onmessage that toggles the polling on every ticker
onmessageTogglesPolling(s, i, f) ==
    LET productId == s.productIds[s.sockets[i].ep] IN
    IF ~f.json \/ ~f.isObject THEN s
    ELSE IF f.type = "ticker" /\ f.product_id = productId
    THEN LET s1 == setTickerData(setPrice(s, parseFloat(f.price)),
                                 [product_id |-> f.product_id, price |-> f.price])
             s2 == [s1 EXCEPT !.reconnectAttemptsRef = 0]
         IN  IF ~s2.fallbackStoppedRef
             THEN [stopFallback(s2) EXCEPT !.fallbackStoppedRef = TRUE]
             ELSE startFallback(s2, s2.sockets[i].ep)
    ELSE IF f.type = "subscriptions" THEN s
    ELSE IF f.type = "error"
    THEN setError(s, "WebSocket error: " \o feedErrorText(f.message))
    ELSE s

\* onmessage that takes the ticker of any instrument
onmessageAnyInstrument(s, i, f) ==
    IF ~f.json \/ ~f.isObject THEN s
    ELSE IF f.type = "ticker"
    THEN LET s1 == setTickerData(setPrice(s, parseFloat(f.price)),
                                 [product_id |-> f.product_id, price |-> f.price])
             s2 == [s1 EXCEPT !.reconnectAttemptsRef = 0]
         IN  IF ~s2.fallbackStoppedRef
             THEN [stopFallback(s2) EXCEPT !.fallbackStoppedRef = TRUE]
             ELSE s2
    ELSE IF f.type = "subscriptions" THEN s
    ELSE IF f.type = "error"
    THEN setError(s, "WebSocket error: " \o feedErrorText(f.message))
    ELSE s

\* JSON.parse throws on text that is not JSON; data.type throws on null
onmessage(s, i, f) ==
    LET productId == s.productIds[s.sockets[i].ep] IN
    IF ~f.json \/ ~f.isObject THEN s
    ELSE IF f.type = "ticker" /\ f.product_id = productId
    THEN LET s1 == setTickerData(setPrice(s, parseFloat(f.price)),
                                 [product_id |-> f.product_id, price |-> f.price])
             s2 == [s1 EXCEPT !.reconnectAttemptsRef = 0]
         IN  IF ~s2.fallbackStoppedRef
             THEN [stopFallback(s2) EXCEPT !.fallbackStoppedRef = TRUE]
             ELSE s2
    ELSE IF f.type = "subscriptions" THEN s
    ELSE IF f.type = "error"
    THEN setError(s, "WebSocket error: " \o feedErrorText(f.message))
    ELSE s

onerror(s, i) ==
    setError(clearWatchdog([s EXCEPT !.isConnectingRef = FALSE], i),
             "Connection error occurred")

\* a retry scheduled twice over
scheduleReconnectTwice(s, ep) ==
    [s EXCEPT !.timers = Append(Append(untrack(@, "reconnect"),
                                       Timer("reconnect", ep, 0, FALSE)),
                                Timer("reconnect", ep, 0, TRUE)),
              !.reconnectTimeoutRef = Handle]

\* schedule the retry timer: the handle in the ref is overwritten, and a
\* timer it referred to stays pending with no handle left to clear it
scheduleReconnect(s, ep) ==
    [s EXCEPT !.timers = Append(untrack(@, "reconnect"), Timer("reconnect", ep, 0, TRUE)),
              !.reconnectTimeoutRef = Handle]

\* onclose that allows one attempt more before the fallback
oncloseExtraAttempt(s, i, code) ==
    LET ep == s.sockets[i].ep
        s1 == setIsConnected(clearWatchdog([s EXCEPT !.isConnectingRef = FALSE], i),
                             FALSE)
    IN  IF code # NormalClosure
        THEN LET s2 == [s1 EXCEPT !.reconnectAttemptsRef = @ + 1]
                 errorMsg == getErrorMessage(code)
             IN  IF s2.reconnectAttemptsRef > MaxAttempts
                 THEN startFallback(
                          setError(s2, errorMsg \o " - using REST API fallback"), ep)
                 ELSE scheduleReconnect(
                          setError(s2, errorMsg \o ". Reconnecting... (" \o
                                       ToString(s2.reconnectAttemptsRef) \o "/2)"), ep)
        ELSE s1

\* onclose that recovers after a normal closure too
oncloseRecoversAlways(s, i, code) ==
    LET ep == s.sockets[i].ep
        s1 == setIsConnected(clearWatchdog([s EXCEPT !.isConnectingRef = FALSE], i),
                             FALSE)
        s2 == [s1 EXCEPT !.reconnectAttemptsRef = @ + 1]
        errorMsg == getErrorMessage(code)
    IN  IF s2.reconnectAttemptsRef >= MaxAttempts
        THEN startFallback(
                 setError(s2, errorMsg \o " - using REST API fallback"), ep)
        ELSE scheduleReconnect(
                 setError(s2, errorMsg \o ". Reconnecting... (" \o
                              ToString(s2.reconnectAttemptsRef) \o "/2)"), ep)

\* onclose that gives up at once on the codes that ask for patience
oncloseByCode(s, i, code) ==
    LET ep == s.sockets[i].ep
        s1 == setIsConnected(clearWatchdog([s EXCEPT !.isConnectingRef = FALSE], i),
                             FALSE)
    IN  IF code # NormalClosure
        THEN LET s2 == [s1 EXCEPT !.reconnectAttemptsRef = @ + 1]
                 errorMsg == getErrorMessage(code)
             IN  IF s2.reconnectAttemptsRef >= MaxAttempts \/ code \in {1008, 1013, 1014}
                 THEN startFallback(
                          setError(s2, errorMsg \o " - using REST API fallback"), ep)
                 ELSE scheduleReconnect(
                          setError(s2, errorMsg \o ". Reconnecting... (" \o
                                       ToString(s2.reconnectAttemptsRef) \o "/2)"), ep)
        ELSE s1

onclose(s, i, code) ==
    LET ep == s.sockets[i].ep
        s1 == setIsConnected(clearWatchdog([s EXCEPT !.isConnectingRef = FALSE], i),
                             FALSE)
    IN  IF code # NormalClosure
        THEN LET s2 == [s1 EXCEPT !.reconnectAttemptsRef = @ + 1]
                 errorMsg == getErrorMessage(code)
             IN  IF s2.reconnectAttemptsRef >= MaxAttempts
                 THEN startFallback(
                          setError(s2, errorMsg \o " - using REST API fallback"), ep)
                 ELSE scheduleReconnect(
                          setError(s2, errorMsg \o ". Reconnecting... (" \o
                                       ToString(s2.reconnectAttemptsRef) \o "/2)"), ep)
        ELSE s1

(* --------------------------- ticker manager ---------------------------- *)
\* clearTimeout leaves the handle in the ref
reconnect(s, throws) ==
    LET s1 == IF s.reconnectTimeoutRef # Null THEN clearTracked(s, "reconnect") ELSE s
    IN  connect([s1 EXCEPT !.reconnectAttemptsRef = 0], s.epoch, throws)

\* the effect body without the reset of the attempt counter
startKeepsCounter(s, p) ==
    LET s0 == [s EXCEPT !.mounted = TRUE, !.epoch = @ + 1,
                        !.productIds = Append(@, p)]
        s1 == setError(setTickerData(setPrice(s0, NullPrice), NullQuote), NullError)
    IN  setTimeout(startFallback(s1, s1.epoch), Timer("settle", s1.epoch, 0, TRUE))

\* the effect body, run for a new productId p
start(s, p) ==
    LET s0 == [s EXCEPT !.mounted = TRUE, !.epoch = @ + 1,
                        !.productIds = Append(@, p)]
        s1 == setError(setTickerData(setPrice(s0, NullPrice), NullQuote), NullError)
        s2 == [s1 EXCEPT !.reconnectAttemptsRef = 0]
    IN  setTimeout(startFallback(s2, s2.epoch), Timer("settle", s2.epoch, 0, TRUE))

\* the effect cleanup
stop(s) ==
    LET s1 == clearTracked(s, "settle")
        s2 == IF s1.reconnectTimeoutRef # Null
              THEN [clearTracked(s1, "reconnect") EXCEPT !.reconnectTimeoutRef = Null]
              ELSE s1
        s3 == IF s2.wsRef # Null /\ s2.sockets[s2.wsRef].rs # "CLOSED"
              THEN [s2 EXCEPT !.sockets[s2.wsRef] = closeSocket(@, "1000"),
                              !.wsRef = Null]
              ELSE s2
    IN  [stopFallback(s3) EXCEPT !.isConnectingRef = FALSE,
                                 !.fallbackStoppedRef = FALSE]

\* React discards the state of a component that unmounts
unmounted(s) ==
    [s EXCEPT !.mounted = FALSE, !.price = NullPrice, !.tickerData = NullQuote,
              !.isConnected = FALSE, !.error = NullError]

(* ------------------------------ actions -------------------------------- *)
Count(q, Test(_)) == Len(SelectSeq(q, Test))

\* the counters the model bounds
WithinBounds(s) ==
    LET LeakedRetry(tm) == ~tm.tracked /\ tm.kind = "reconnect"
        LeakedPoll(tm) == ~tm.tracked /\ tm.kind = "poll"
        WRetry(tm) == tm.kind = "watchdogRetry"
        CRetry(tm) == tm.kind = "creationRetry"
    IN  /\ Len(s.sockets) <= MaxSockets
        /\ Count(s.timers, LeakedRetry) <= MaxLeaked
        /\ Count(s.timers, LeakedPoll) <= MaxLeaked
        /\ Count(s.timers, WRetry) <= MaxLeaked
        /\ Count(s.timers, CRetry) <= MaxLeaked
        /\ \A e \in Epochs : s.inflight[e] <= MaxInflight

\* the step to state s, with the history variables g and l
Commit(s, g, l) ==
    /\ WithinBounds(s)
    /\ price' = s.price
    /\ tickerData' = s.tickerData
    /\ isConnected' = s.isConnected
    /\ error' = s.error
    /\ wsRef' = s.wsRef
    /\ reconnectTimeoutRef' = s.reconnectTimeoutRef
    /\ fallbackIntervalRef' = s.fallbackIntervalRef
    /\ reconnectAttemptsRef' = s.reconnectAttemptsRef
    /\ fallbackStoppedRef' = s.fallbackStoppedRef
    /\ isConnectingRef' = s.isConnectingRef
    /\ mounted' = s.mounted
    /\ epoch' = s.epoch
    /\ productIds' = s.productIds
    /\ sockets' = s.sockets
    /\ timers' = s.timers
    /\ inflight' = s.inflight
    /\ gaveUp' = g
    /\ last' = l

Init ==
    /\ price = NullPrice
    /\ tickerData = NullQuote
    /\ isConnected = FALSE
    /\ error = NullError
    /\ wsRef = Null
    /\ reconnectTimeoutRef = Null
    /\ fallbackIntervalRef = Null
    /\ reconnectAttemptsRef = 0
    /\ fallbackStoppedRef = FALSE
    /\ isConnectingRef = FALSE
    /\ mounted = FALSE
    /\ epoch = 0
    /\ productIds = << >>
    /\ sockets = << >>
    /\ timers = << >>
    /\ inflight = [e \in Epochs |-> 0]
    /\ gaveUp = FALSE
    /\ last = "init"

\* the component mounts with the default productId: the effect runs for the
\* first time
Mount ==
    /\ epoch = 0
    /\ Commit(start(State, DefaultProductId), FALSE, "start")

\* the productId prop changes: cleanup of the old effect, then the new effect
SwitchInstrument ==
    /\ mounted
    /\ epoch < MaxEpochs
    /\ \E p \in Instruments \ {productIds[epoch]} :
          Commit(start(stop(State), p), FALSE, "start")

\* the component unmounts: cleanup of the effect
Unmount ==
    /\ mounted
    /\ Commit(unmounted(stop(State)), gaveUp, "stop")

\* the user calls reconnect(); T: whether the WebSocket constructor can throw
Reconnect(T) ==
    /\ mounted
    /\ \E throws \in T : Commit(reconnect(State, throws), FALSE, "reconnect")

\* the callback of the j-th pending timer of s, as the state it leads to.
\* A timeout is removed when it fires; an interval is armed again.
timerFired(s, j, throws) ==
    LET tm == s.timers[j]
        s1 == [s EXCEPT !.timers = RemoveAt(@, j)]
    IN  CASE tm.kind \in {"settle", "reconnect", "watchdogRetry"} ->
                connect(s1, tm.ep, throws)
          [] tm.kind = "creationRetry" ->
                connect([s1 EXCEPT !.reconnectAttemptsRef = @ + 1], tm.ep, throws)
          [] tm.kind = "watchdog" -> connectionTimeout(s1, tm.sock)
          [] tm.kind = "poll" -> fetchPriceData(setTimeout(s1, tm), tm.ep)

\* the j-th pending timer is of the given kind and it is its turn to fire
Due(j, kind) == timers[j].kind = kind /\ CanFire(timers, j)

\* the 1 s settle timer of the effect fires; T: whether the WebSocket
\* constructor can throw
SettleTimer(T) ==
    \E j \in 1..Len(timers), throws \in T :
       Due(j, "settle") /\ Commit(timerFired(State, j, throws), gaveUp, "settleTimer")

\* a scheduled retry timer fires
ReconnectTimer(T) ==
    \E j \in 1..Len(timers), throws \in T :
       Due(j, "reconnect") /\ Commit(timerFired(State, j, throws), gaveUp, "reconnectTimer")

\* the 3 s retry timer of a watchdog fires
WatchdogRetryTimer(T) ==
    \E j \in 1..Len(timers), throws \in T :
       Due(j, "watchdogRetry") /\ Commit(timerFired(State, j, throws), gaveUp, "watchdogRetry")

\* the 5 s retry timer of the catch block fires
CreationRetryTimer(T) ==
    \E j \in 1..Len(timers), throws \in T :
       Due(j, "creationRetry") /\ Commit(timerFired(State, j, throws), gaveUp, "creationRetry")

\* the 15 s watchdog of a socket fires
Watchdog ==
    \E j \in 1..Len(timers) :
       Due(j, "watchdog") /\ Commit(timerFired(State, j, FALSE), gaveUp, "watchdog")

\* a polling interval ticks
PollTick ==
    \E j \in 1..Len(timers) :
       Due(j, "poll") /\ Commit(timerFired(State, j, FALSE), gaveUp, "poll")

\* the requests of a poll of epoch e resolve with a response of R
FetchDone(R) ==
    \E e \in Epochs, r \in R :
       /\ inflight[e] > 0
       /\ Commit(fetchResolved(State, e, r), gaveUp, "fetchDone")

\* the handshake of socket i completes
socketOpened(s, i) == onopen([s EXCEPT !.sockets[i].rs = "OPEN"], i)

SocketOpen ==
    \E i \in 1..Len(sockets) :
       /\ sockets[i].rs = "CONNECTING"
       /\ Commit(socketOpened(State, i), gaveUp, "open")

\* what a frame is to the handler of socket i: text it cannot parse, a
\* ticker of the instrument it subscribed to, or any other message
frameTag(s, i, f) ==
    IF ~f.json \/ ~f.isObject THEN "malformedMessage"
    ELSE IF f.type = "ticker" /\ f.product_id = s.productIds[s.sockets[i].ep]
    THEN "ticker"
    ELSE "message"

\* the handlers of a ticker of the subscribed instrument
TickerTags == {"ticker", "tickerAgain"}

\* a frame of F arrives on socket i; the browser delivers frames to OPEN
\* sockets only.  A ticker of the subscribed instrument handled right after
\* another one is a "tickerAgain"
SocketMessage(F) ==
    \E i \in 1..Len(sockets), f \in F :
       /\ sockets[i].rs = "OPEN"
       /\ LET tag == frameTag(State, i, f)
          IN  Commit(onmessage(State, i, f), gaveUp,
                     IF tag = "ticker" /\ last \in TickerTags THEN "tickerAgain"
                     ELSE tag)

\* how the connection of a socket can end: the close code, and whether the
\* browser had to fail the connection (it then fires error before close)
CloseOutcomes(sk) ==
    LET failure == {[code |-> AbnormalClosure, failed |-> TRUE]} IN
    CASE sk.rs = "CONNECTING" -> failure
      [] sk.rs = "OPEN" -> failure \cup {[code |-> NormalClosure, failed |-> FALSE]}
      [] sk.rs = "CLOSING" /\ sk.closeReq = "abort" -> failure
      [] sk.rs = "CLOSING" /\ sk.closeReq = "nocode" ->
            failure \cup {[code |-> NoStatusReceived, failed |-> FALSE]}
      [] sk.rs = "CLOSING" /\ sk.closeReq = "1000" ->
            failure \cup {[code |-> NormalClosure, failed |-> FALSE]}
      [] OTHER -> {}

\* the connection of socket i ends with outcome o: readyState becomes CLOSED,
\* then error (if the connection failed) and close are fired in the same task
socketClosed(s, i, o) ==
    LET s0 == [s EXCEPT !.sockets[i].rs = "CLOSED", !.sockets[i].closeReq = "none",
                        !.sockets[i].sent = << >>]
        s1 == IF o.failed THEN onerror(s0, i) ELSE s0
    IN  onclose(s1, i, o.code)

\* the close handler took the fallback branch
exhausted(s, o) == o.code # NormalClosure /\ s.reconnectAttemptsRef >= MaxAttempts

SocketClosed ==
    \E i \in 1..Len(sockets) :
       \E o \in CloseOutcomes(sockets[i]) :
          LET s == socketClosed(State, i, o)
          IN  Commit(s, gaveUp \/ exhausted(s, o),
                     IF o.code = NormalClosure THEN "normalClose" ELSE "close")

(* --------------------------- specifications ---------------------------- *)
\* the inputs of the connection-centred specification: one well-formed price
ValidPrice == Str(<<"5", "1", ".", "0">>)

CoreFrames ==
    {f \in Frames : \/ ~f.json
                    \/ f.type = "ticker" /\ f.price = ValidPrice
                    \/ f.type = "heartbeat"}

CoreResponses == {r \in Responses : r.kind = "500" \/ r.price = ValidPrice}

\* one instrument from mount to unmount, every timer and socket event, the
\* constructor free to throw
Next ==
    \/ Mount
    \/ Unmount
    \/ Reconnect(BOOLEAN)
    \/ SettleTimer(BOOLEAN)
    \/ ReconnectTimer(BOOLEAN)
    \/ WatchdogRetryTimer(BOOLEAN)
    \/ CreationRetryTimer(BOOLEAN)
    \/ Watchdog
    \/ PollTick
    \/ FetchDone(CoreResponses)
    \/ SocketOpen
    \/ SocketMessage(CoreFrames)
    \/ SocketClosed

Spec == Init /\ [][Next]_vars

\* the same with a change of instrument
SwitchNext ==
    \/ Next
    \/ SwitchInstrument

SwitchSpec == Init /\ [][SwitchNext]_vars

\* one instrument, every frame and every response of the model; the
\* constructor does not throw, no watchdog, no unmount
DataNext ==
    \/ Mount
    \/ Reconnect({FALSE})
    \/ SettleTimer({FALSE})
    \/ ReconnectTimer({FALSE})
    \/ PollTick
    \/ FetchDone(Responses)
    \/ SocketOpen
    \/ SocketMessage(Frames)
    \/ SocketClosed

DataSpec == Init /\ [][DataNext]_vars

\* the same with the scheduling of the browser: the connection of a socket
\* ends (the handshake or the closing handshake fails at the latest when the
\* network stack times out) and a request resolves
LiveSpec ==
    /\ Spec
    /\ SF_vars(SocketClosed)
    /\ WF_vars(FetchDone(CoreResponses))

(* ------------------------------- claims -------------------------------- *)
\* a step constructed a WebSocket
SocketCreated ==
    /\ Len(sockets') > Len(sockets)
    /\ sockets'[Len(sockets')].rs = "CONNECTING"

\* the connection of socket i ended in this step
ClosedStep(i) == sockets[i].rs # "CLOSED" /\ sockets'[i].rs = "CLOSED"

\* the timers of q that recover the data flow (retries) or are it (polls)
RecoveryTimers(q) ==
    LET Recovers(tm) == tm.kind \in {"reconnect", "watchdogRetry", "creationRetry", "poll"}
    IN  SelectSeq(q, Recovers)

Live(i) == sockets[i].rs \in {"CONNECTING", "OPEN"}

SomeTimer(kinds) == \E j \in 1..Len(timers) : timers[j].kind \in kinds

\* C1: once a close event has raised attemptCount to 2 (fallback), every
\* socket creation is the work of a manual reconnect() or of a fresh start,
\* never of a timer
C1_NoAutomaticConnectAfterFallback ==
    [][(gaveUp /\ SocketCreated) => last' \in {"reconnect", "start"}]_vars

\* C2: the polling interval is cleared only by the handling of a ticker of
\* the subscribed instrument or by stop; connect() and reconnect() leave it
\* running
C2_PollingStoppedOnlyByTicker ==
    [][(fallbackIntervalRef # Null /\ fallbackIntervalRef' = Null)
          => last' \in TickerTags \cup {"stop"}]_vars

\* C3: between start and stop some price producer is live or pending: a
\* polling interval, a socket that is Connecting or Open (or closing, with
\* its close event still to come), or a connect or retry timer
C3_DataFlowNeverStops ==
    mounted => \/ SomeTimer({"poll"})
               \/ \E i \in 1..Len(sockets) : Live(i) \/ sockets[i].rs = "CLOSING"
               \/ SomeTimer({"settle", "reconnect", "watchdogRetry", "creationRetry"})

\* C4 as claimed: a close with a code other than 1000 adds exactly 1 to
\* attemptCount, a ticker of the subscribed instrument and reconnect() set it
\* to 0, and nothing else changes it
C4_AttemptCountAsClaimed ==
    [][/\ last' = "close" => reconnectAttemptsRef' = reconnectAttemptsRef + 1
       /\ reconnectAttemptsRef' # reconnectAttemptsRef
             => \/ last' = "close"
                \/ reconnectAttemptsRef' = 0 /\ last' \in TickerTags \cup {"reconnect"}]_vars

\* C4 as amended: a close with a code other than 1000 adds exactly 1 to
\* attemptCount; a ticker of the subscribed instrument, reconnect() and start
\* set it to 0; the retry timer of a failed socket creation adds 1; nothing
\* else changes it
C4_AttemptCount ==
    [][/\ last' = "close" => reconnectAttemptsRef' = reconnectAttemptsRef + 1
       /\ reconnectAttemptsRef' # reconnectAttemptsRef
             => \/ last' = "close"
                \/ reconnectAttemptsRef' = 0 /\ last' \in TickerTags \cup {"reconnect", "start"}
                \/ /\ last' = "creationRetry"
                   /\ reconnectAttemptsRef' = reconnectAttemptsRef + 1]_vars

\* C4 witness: a second abnormal close in a row has been counted
C4_Witness == last = "close" /\ reconnectAttemptsRef = 2

\* C5: the close event of a socket that a newer connect() has superseded
\* changes no recovery state: attemptCount, the in-flight guard, connected,
\* the retry timers and the polling
C5_StaleCloseIgnored ==
    [][\A i \in 1..Len(sockets) :
          (ClosedStep(i) /\ i # wsRef /\ i < Len(sockets))
             => /\ UNCHANGED <<reconnectAttemptsRef, isConnectingRef, isConnected,
                               fallbackIntervalRef>>
                /\ RecoveryTimers(timers') = RecoveryTimers(timers)]_vars

\* C6: at most one socket is in the Connecting state
C6_OneConnecting ==
    Cardinality({i \in 1..Len(sockets) : sockets[i].rs = "CONNECTING"}) <= 1

\* C6 witness: a manual reconnect() has replaced a socket that is still
\* closing by a new one that is connecting
C6_Witness ==
    /\ last = "reconnect"
    /\ \E i, k \in 1..Len(sockets) :
          i < k /\ sockets[i].rs = "CLOSING" /\ sockets[k].rs = "CONNECTING"

\* C7: after stop no timer callback of the manager runs connect() or a fetch
C7_NoTimerAfterStop ==
    (~mounted /\ epoch > 0)
       => last \notin {"settleTimer", "reconnectTimer", "watchdogRetry",
                       "creationRetry", "poll"}

\* C8: whenever price or quote change, they are reset by start or stop or
\* the new price is the finite number parsed from the new quote
C8_OnlyParsedQuotes ==
    [][(price' # price \/ tickerData' # tickerData)
          => \/ last' \in {"start", "stop"}
             \/ IsFinite(price') /\ price' = parseFloat(tickerData'.price)]_vars

\* C9: while polling is deactivated because the stream delivered a ticker of
\* the subscribed instrument, no polling result changes price or quote
C9_OneAuthoritativeSource ==
    [][(fallbackStoppedRef /\ fallbackIntervalRef = Null /\ last' = "fetchDone")
          => UNCHANGED <<price, tickerData>>]_vars

\* C10: handling a frame that is not valid structured data changes nothing
C10_MalformedFrameNoEffect ==
    \A i \in 1..Len(sockets) :
       sockets[i].rs = "OPEN"
          => \A f \in Frames : (~f.json \/ ~f.isObject) => onmessage(State, i, f) = State

\* C10 witness: such a frame has been handled while a price and an error
\* were showing and polling was off
C10_Witness ==
    /\ last = "malformedMessage"
    /\ price # NullPrice
    /\ error # NullError
    /\ fallbackIntervalRef = Null

\* the timers of q of the given kinds
TimersOf(q, kinds) ==
    LET Is(tm) == tm.kind \in kinds IN SelectSeq(q, Is)

\* every resource of the manager is released: no connect, retry or polling
\* timer is pending, no socket is Connecting or Open, the refs are cleared
Released ==
    /\ TimersOf(timers, {"settle", "reconnect", "watchdogRetry",
                         "creationRetry", "poll"}) = << >>
    /\ wsRef = Null
    /\ \A i \in 1..Len(sockets) : ~Live(i)
    /\ fallbackIntervalRef = Null
    /\ reconnectTimeoutRef = Null
    /\ ~isConnectingRef

\* C11: right after stop every connect, retry and polling timer, the socket
\* and the polling interval are released and the guard is false (a watchdog
\* left pending is not even counted); and the close event of a socket of a
\* manager that has been stopped changes neither attemptCount nor the retry
\* timers nor the polling
C11_StopReleasesEverything ==
    /\ [](last = "stop" => Released)
    /\ [][\A i \in 1..Len(sockets) :
            (ClosedStep(i) /\ ~mounted)
               => /\ UNCHANGED <<reconnectAttemptsRef, fallbackIntervalRef>>
                  /\ RecoveryTimers(timers') = RecoveryTimers(timers)]_vars

\* C12: a close event with code 1000 leaves connected false and the guard
\* false, clears the watchdog of its socket, and changes neither
\* attemptCount nor the retry timers nor the polling nor the sockets created
C12_NormalCloseNoRecovery ==
    [][last' = "normalClose"
         => /\ ~isConnected' /\ ~isConnectingRef'
            /\ \A i \in 1..Len(sockets) :
                  ClosedStep(i) =>
                     \A j \in 1..Len(timers') :
                        ~(timers'[j].kind = "watchdog" /\ timers'[j].sock = i)
            /\ UNCHANGED <<reconnectAttemptsRef, fallbackIntervalRef,
                            reconnectTimeoutRef, inflight, error>>
            /\ RecoveryTimers(timers') = RecoveryTimers(timers)
            /\ Len(sockets') = Len(sockets)]_vars

\* C12 witness: a socket was closed normally while attemptCount was 1 and a
\* retry was pending
C12_Witness ==
    /\ last = "normalClose"
    /\ reconnectAttemptsRef = 1
    /\ SomeTimer({"reconnect"})

\* the error texts of a first abnormal close
RetryErrors ==
    {getErrorMessage(c) \o ". Reconnecting... (1/2)" :
        c \in {NoStatusReceived, AbnormalClosure}}

\* a close with a code other than 1000 that brings attemptCount from 0 to 1
\* leaves connected false and the error "<reason>. Reconnecting... (1/2)",
\* and schedules exactly one retry timer
FirstCloseSchedulesRetry ==
    (last' = "close" /\ mounted /\ reconnectAttemptsRef = 0)
       => /\ reconnectAttemptsRef' = 1
          /\ ~isConnected'
          /\ error' \in RetryErrors
          /\ reconnectTimeoutRef' = Handle
          /\ Len(TimersOf(timers', {"reconnect"}))
                = Len(TimersOf(timers, {"reconnect"})) + 1
          /\ Len(sockets') = Len(sockets)

FallbackErrors ==
    {getErrorMessage(c) \o " - using REST API fallback" :
        c \in {NoStatusReceived, AbnormalClosure}}

\* C14: a close with a code other than 1000 that brings attemptCount to 2
\* or more leaves the error "<reason> - using REST API fallback" and
\* activates polling with a fetch in the same step; and the polling it
\* activated is stopped by nothing but a ticker of the subscribed
\* instrument, a manual reconnect, stop or a new start
C14_FallbackKeepsPolling ==
    /\ [][(last' = "close" /\ mounted /\ reconnectAttemptsRef >= 1)
            => /\ error' \in FallbackErrors
               /\ fallbackIntervalRef' = Handle
               /\ \E e \in Epochs : inflight'[e] = inflight[e] + 1]_vars
    /\ [][(gaveUp /\ fallbackIntervalRef # Null /\ fallbackIntervalRef' = Null)
            => last' \in TickerTags \cup {"reconnect", "stop", "start"}]_vars

\* C15: reconnect() called while a retry is scheduled leaves no scheduled
\* retry pending and attemptCount 0
C15_ReconnectCancelsRetry ==
    [][(last' = "reconnect" /\ SomeTimer({"reconnect"}))
          => /\ TimersOf(timers', {"reconnect"}) = << >>
             /\ reconnectAttemptsRef' = 0]_vars

C17_AfterTicker ==
    (last \in TickerTags /\ mounted)
       => /\ price = parseFloat(tickerData.price)
          /\ tickerData.product_id = productIds[epoch]
          /\ isConnected
          /\ fallbackIntervalRef = Null
          /\ reconnectAttemptsRef = 0

\* C18: the first ticker of a run of tickers of the subscribed instrument
\* leaves the polling deactivated; every further one of the run updates
\* price and quote and leaves attemptCount 0, and changes neither the
\* polling (interval, flag, fetches in flight) nor the error
C18_DeactivationIdempotent ==
    [][/\ last' \in TickerTags
            => /\ fallbackIntervalRef' = Null /\ fallbackStoppedRef'
               /\ reconnectAttemptsRef' = 0
               /\ mounted => price' = parseFloat(tickerData'.price)
       /\ last' = "tickerAgain"
            => /\ UNCHANGED <<fallbackIntervalRef, fallbackStoppedRef, inflight,
                               error, isConnected>>
               /\ TimersOf(timers', {"poll"}) = TimersOf(timers, {"poll"})]_vars

\* C18 witness: a second ticker in a row has replaced the price of the first
C18_Witness ==
    /\ last = "tickerAgain"
    /\ price = Num(50, 0)
    /\ fallbackStoppedRef
    /\ fallbackIntervalRef = Null

\* the pending timers of q of a kind that belong to epoch e and whose
\* handle is held
TrackedOf(q, kind, e) ==
    LET Is(tm) == tm.kind = kind /\ tm.ep = e /\ tm.tracked IN SelectSeq(q, Is)

\* start resets price, quote, error and attemptCount, and in the same step
\* issues a fetch for the new instrument, arms the polling interval and
\* arms the settle timer
StartIsFresh ==
    last' = "start"
       => /\ price' = NullPrice /\ tickerData' = NullQuote /\ error' = NullError
          /\ reconnectAttemptsRef' = 0
          /\ mounted' /\ epoch' = epoch + 1
          /\ inflight'[epoch'] = inflight[epoch'] + 1
          /\ fallbackIntervalRef' = Handle
          /\ Len(TrackedOf(timers', "poll", epoch')) = 1
          /\ Len(TrackedOf(timers', "settle", epoch')) = 1
          /\ Len(sockets') = Len(sockets)

\* a pending settle timer goes away only by firing or by stop
SettleTimerStays ==
    (SomeTimer({"settle"}) /\ TimersOf(timers', {"settle"}) = << >>)
       => last' \in {"settleTimer", "stop"}

C20_OpenKeepsBudget ==
    /\ [][last' = "open" => UNCHANGED reconnectAttemptsRef]_vars
    /\ [][(last' = "close" /\ reconnectAttemptsRef = 1)
            => /\ reconnectAttemptsRef' = 2
               /\ gaveUp'
               /\ fallbackIntervalRef' = Handle
               /\ TimersOf(timers', {"reconnect"}) = TimersOf(timers, {"reconnect"})
               /\ mounted => error' \in FallbackErrors]_vars

\* C20 witness: after an abnormal close and its retry, the socket of the
\* retry has opened and attemptCount is still 1
C20_Witness ==
    /\ mounted
    /\ last = "open"
    /\ reconnectAttemptsRef = 1
    /\ Len(sockets) = 2
    /\ sockets[1].rs = "CLOSED" /\ sockets[2].rs = "OPEN"
    /\ ~SomeTimer({"settle", "reconnect"})
    /\ price = NullPrice

\* the error a feed error message with the text m leaves
FeedError(m) ==
    "WebSocket error: " \o (IF m = Undefined THEN "Unknown error" ELSE Join(m.s))

\* C21: handling a well-formed message that is not a ticker of the
\* subscribed instrument changes nothing, except that a feed error message
\* sets the error to a text built from its message
C21_OtherMessagesNoEffect ==
    \A i \in 1..Len(sockets) :
       sockets[i].rs = "OPEN"
          => \A f \in Frames :
                (f.json /\ f.isObject /\ frameTag(State, i, f) = "message")
                   => onmessage(State, i, f) =
                         IF f.type = "error" /\ mounted
                         THEN [State EXCEPT !.error = FeedError(f.message)]
                         ELSE State

\* C21 witness: a feed error message has been handled while a price was
\* showing
C21_Witness ==
    /\ last = "message"
    /\ error = "WebSocket error: x"
    /\ IsFinite(price)
    /\ isConnected

\* the watchdog of socket i is pending in q
WatchdogArmed(q, i) ==
    \E j \in 1..Len(q) : q[j].kind = "watchdog" /\ q[j].sock = i

\* C22: while the manager is started, the open event of a socket leaves no
\* watchdog of it, the guard false, connected true, and exactly one frame
\* sent on it: the subscribe request for the current instrument and the
\* ticker channel; and no other event sends anything
C22_OpenSubscribes ==
    /\ [][(last' = "open" /\ mounted)
            => \E i \in 1..Len(sockets) :
                  /\ sockets[i].rs = "CONNECTING" /\ sockets'[i].rs = "OPEN"
                  /\ ~WatchdogArmed(timers', i)
                  /\ ~isConnectingRef'
                  /\ isConnected'
                  /\ sockets'[i].sent =
                        <<[type |-> "subscribe", product_ids |-> <<productIds[epoch]>>,
                           channels |-> <<"ticker">>]>>]_vars
    /\ [][\A i \in 1..Len(sockets) :
            (sockets'[i].sent # sockets[i].sent)
               => last' = "open" \/ ClosedStep(i)]_vars

\* the error event of socket i, fired by the browser when the connection of
\* the socket has failed and its readyState is CLOSED
errorEvent(s, i) ==
    onerror([s EXCEPT !.sockets[i].rs = "CLOSED", !.sockets[i].closeReq = "none",
                      !.sockets[i].sent = << >>], i)

\* C23: the error handler of a socket whose connection fails leaves connected
\* false, the guard false, no watchdog of the socket armed and the error
\* "Connection error occurred"
C23_ErrorEvent ==
    \A i \in 1..Len(sockets) :
       (\E o \in CloseOutcomes(sockets[i]) : o.failed)
          => LET s == errorEvent(State, i)
             IN  /\ ~s.isConnected
                 /\ ~s.isConnectingRef
                 /\ ~WatchdogArmed(s.timers, i)
                 /\ mounted => s.error = "Connection error occurred"

\* the timer callbacks whose whole body is a call of connect()
ConnectCalls == {"settleTimer", "reconnectTimer", "watchdogRetry"}

\* C24: connect() called while the guard is set changes nothing: for every
\* closure and whether or not the constructor would throw it returns the
\* state it was called in, and a step that only calls connect() with the
\* guard set from a timer leaves every field, every socket and every timer
\* as it was (but for the one-shot timer that made the call)
C24_GuardedConnectNoOp ==
    /\ [][isConnectingRef => \A e \in 1..epoch, throws \in BOOLEAN :
                                connect(State, e, throws) = State]_vars
    /\ [][(isConnectingRef /\ last' \in ConnectCalls)
            => /\ UNCHANGED <<price, tickerData, isConnected, error, wsRef,
                              reconnectTimeoutRef, fallbackIntervalRef,
                              reconnectAttemptsRef, fallbackStoppedRef,
                              isConnectingRef, mounted, epoch, productIds,
                              sockets, inflight>>
               /\ \E j \in 1..Len(timers) : timers' = RemoveAt(timers, j)]_vars

\* C24 witness: the 3 s retry of a watchdog has called connect() while the
\* socket the watchdog closed had not delivered its close event, with an
\* error on display
C24_Witness ==
    /\ last = "watchdogRetry"
    /\ isConnectingRef
    /\ wsRef # Null /\ sockets[wsRef].rs = "CLOSING"
    /\ error = "Connection timeout - retrying..."
    /\ mounted

\* C25: while the manager is started the quote on display is null or a quote
\* of the current instrument: nothing issued for a previous instrument (a
\* fetch, a socket, a timer) has put its quote there
C25_SwitchIsolates ==
    (mounted /\ tickerData # NullQuote) => tickerData.product_id = productIds[epoch]

\* C26: the error handler schedules nothing and leaves the attempt counter,
\* and at no time is more than one automatic reconnect (a scheduled retry or
\* a watchdog retry) pending
C26_SingleRetry ==
    /\ \A i \in 1..Len(sockets) :
          (\E o \in CloseOutcomes(sockets[i]) : o.failed)
             => LET s == errorEvent(State, i)
                IN  /\ s.reconnectAttemptsRef = reconnectAttemptsRef
                    /\ RecoveryTimers(s.timers) = RecoveryTimers(timers)
    /\ Len(TimersOf(timers, {"reconnect", "watchdogRetry"})) <= 1

\* the socket the watchdog has closed and whose close event is still to come:
\* connectionTimeout is the only caller of close() that leaves the socket in
\* wsRef
ClosedByWatchdog(i) == wsRef = i /\ sockets[i].rs = "CLOSING"

\* C27: the watchdog of a socket that is still Connecting closes the socket,
\* shows an error and arms one 3 s retry, and neither that step nor the close
\* event it causes changes the attempt counter
C27_WatchdogKeepsBudget ==
    /\ [][\A i \in 1..Len(sockets) :
            (last' = "watchdog" /\ sockets[i].rs = "CONNECTING" /\ ~WatchdogArmed(timers', i)
               /\ WatchdogArmed(timers, i))
               => /\ sockets'[i].rs = "CLOSING"
                  /\ mounted => error' = "Connection timeout - retrying..."
                  /\ Len(TimersOf(timers', {"watchdogRetry"}))
                        = Len(TimersOf(timers, {"watchdogRetry"})) + 1
                  /\ UNCHANGED reconnectAttemptsRef]_vars
    /\ [][\A i \in 1..Len(sockets) :
            (ClosedByWatchdog(i) /\ ClosedStep(i)) => UNCHANGED reconnectAttemptsRef]_vars

\* the guard is set and the tracked socket is Connecting with its watchdog
\* armed
AttemptInFlight ==
    /\ wsRef # Null
    /\ sockets[wsRef].rs = "CONNECTING"
    /\ WatchdogArmed(timers, wsRef)

\* C28 as claimed: whenever the guard is set the tracked socket is Connecting
\* with its watchdog armed
C28_GuardAsClaimed == isConnectingRef => AttemptInFlight

\* C28: whenever the guard is set the tracked socket is Connecting with its
\* watchdog armed, or its watchdog has closed it and its close event is still
\* to come; open, close, a constructor that throws and stop leave the guard
\* clear; and a guard that is set is cleared later
C28_GuardReleased ==
    /\ [](isConnectingRef => (AttemptInFlight \/ (wsRef # Null /\ ClosedByWatchdog(wsRef))))
    /\ [][last' \in {"open", "close", "normalClose", "stop"} => ~isConnectingRef']_vars
    /\ [][(Len(sockets') > Len(sockets) /\ sockets'[Len(sockets')].rs = "THROWN")
            => ~isConnectingRef']_vars
    /\ (isConnectingRef ~> ~isConnectingRef)

\* C28 witness: the watchdog has closed the tracked socket, whose close event
\* has not come, and the guard is still set
C28_Witness ==
    /\ last = "watchdog"
    /\ isConnectingRef
    /\ wsRef # Null /\ sockets[wsRef].rs = "CLOSING"
    /\ mounted

\* the responses of a fetch that fails: the request is rejected, the quote
\* request answers a status that is neither 2xx nor 429, or the body has no
\* price or a price that is not a number
FailedResponses ==
    {r \in Responses : \/ r.kind \in {"rejected", "500"}
                       \/ r.kind = "200" /\ isNaN(parseFloat(r.price))}

\* C29: a fetch that fails shows "Unable to fetch price data" and changes
\* nothing else: price and quote keep their values, the polling interval and
\* its handle stay, so the next fetch happens on the timer
C29_FailedFetch ==
    /\ [](\A e \in 1..epoch, r \in FailedResponses :
            inflight[e] > 0
               => fetchResolved(State, e, r)
                     = [State EXCEPT !.inflight[e] = @ - 1,
                                     !.error = "Unable to fetch price data"])
    /\ [][(last' = "fetchDone" /\ error' = "Unable to fetch price data")
            => UNCHANGED <<price, tickerData, timers, fallbackIntervalRef>>]_vars

\* C29 witness: a fetch has failed while a price and a quote were on display
\* and the polling interval was running
C29_Witness ==
    /\ last = "fetchDone"
    /\ error = "Unable to fetch price data"
    /\ IsFinite(price) /\ tickerData # NullQuote
    /\ fallbackIntervalRef = Handle
    /\ \E j \in 1..Len(timers) : timers[j].kind = "poll" /\ timers[j].tracked

\* C30: a response with status 429 shows the rate-limit warning and changes
\* nothing else: no price, no quote, and the polling interval is neither
\* cleared nor armed again
C30_RateLimited ==
    /\ [](\A e \in 1..epoch, r \in Responses :
            (inflight[e] > 0 /\ r.kind = "429")
               => fetchResolved(State, e, r)
                     = [State EXCEPT !.inflight[e] = @ - 1,
                                     !.error = "Rate limited - reducing update frequency"])
    /\ [][(last' = "fetchDone" /\ error' = "Rate limited - reducing update frequency")
            => UNCHANGED <<price, tickerData, timers, fallbackIntervalRef>>]_vars

\* C30 witness: a fetch was rate limited while a price and a quote were on
\* display and the polling interval was running
C30_Witness ==
    /\ last = "fetchDone"
    /\ error = "Rate limited - reducing update frequency"
    /\ IsFinite(price) /\ tickerData # NullQuote
    /\ fallbackIntervalRef = Handle
    /\ \E j \in 1..Len(timers) : timers[j].kind = "poll" /\ timers[j].tracked

\* the responses of a fetch that succeeds: status 200 and a price field that
\* parses to a finite number other than zero
SuccessResponses ==
    {r \in Responses : /\ r.kind = "200"
                       /\ IsFinite(parseFloat(r.price))
                       /\ parseFloat(r.price).m # 0}

\* C31: a fetch that succeeds replaces the price by the number parsed and the
\* quote by the quote received, sets the error to null and connected to true,
\* in every state of the sockets and with every error on display, and changes
\* nothing else
C31_SuccessfulFetch ==
    \A e \in 1..epoch, r \in SuccessResponses :
       (mounted /\ inflight[e] > 0)
          => fetchResolved(State, e, r)
                = [State EXCEPT !.inflight[e] = @ - 1,
                                !.price = parseFloat(r.price),
                                !.tickerData = [product_id |-> productIds[e],
                                                price |-> r.price],
                                !.error = NullError,
                                !.isConnected = TRUE]

\* C31 witness: a fetch has succeeded while the tracked socket was closed: the
\* error of the close is gone, a price is on display and connected is true
C31_Witness ==
    /\ last = "fetchDone"
    /\ wsRef # Null /\ sockets[wsRef].rs = "CLOSED"
    /\ error = NullError
    /\ IsFinite(price) /\ tickerData # NullQuote
    /\ isConnected

\* values of Math.random() * 2000, in whole milliseconds
Jitters == {0, 1, 1000, 1999}

\* close codes other than 1000, among them those of shouldDelayLonger and one
\* that getErrorMessage does not know
AbnormalCodes == {1001, 1005, 1006, 1008, 1013, 1014, 4000}

\* the close event of socket i with the given code, the error text left out
closeEvent(s, i, code) ==
    [onclose([s EXCEPT !.sockets[i].rs = "CLOSED", !.sockets[i].closeReq = "none",
                       !.sockets[i].sent = << >>], i, code)
       EXCEPT !.error = NullError]

\* a step armed a scheduled retry
RetryScheduled ==
    Len(TimersOf(timers', {"reconnect"})) > Len(TimersOf(timers, {"reconnect"}))

LiveSockets == {i \in 1..Len(sockets) : Live(i)}

\* C33: at most one socket is Connecting or Open, and it is the tracked one;
\* a step that creates a socket leaves no earlier socket Connecting or Open
C33_OneLiveSocket ==
    /\ [](Cardinality(LiveSockets) <= 1 /\ \A i \in LiveSockets : wsRef = i)
    /\ [][SocketCreated
            => \A i \in 1..Len(sockets) : sockets'[i].rs \notin {"CONNECTING", "OPEN"}]_vars

\* C33 witness: connect() has closed the open socket it found and tracks the
\* new one, which is connecting
C33_Witness ==
    /\ wsRef = Len(sockets) /\ wsRef > 1
    /\ sockets[wsRef].rs = "CONNECTING"
    /\ sockets[wsRef - 1].rs = "CLOSING" /\ sockets[wsRef - 1].closeReq = "nocode"
    /\ LiveSockets = {wsRef}

\* C34: at most one polling interval exists, and it is the one whose handle
\* the manager holds: no interval is left running without a handle
C34_OnePollingInterval ==
    /\ Len(TimersOf(timers, {"poll"})) <= 1
    /\ \A j \in 1..Len(timers) : timers[j].kind = "poll" => timers[j].tracked

\* the tracked socket is Open and has delivered a ticker of the subscribed
\* instrument since it was created: connect() clears fallbackStoppedRef and
\* only such a ticker sets it
HealthyStream ==
    /\ wsRef # Null
    /\ sockets[wsRef].rs = "OPEN"
    /\ fallbackStoppedRef
    /\ fallbackIntervalRef = Null
    /\ reconnectAttemptsRef = 0

\* C35: while the manager is started and the stream is healthy, the callback
\* of a scheduled retry or of a watchdog retry leaves the tracked socket
\* tracked and Open
C35_HealthyStreamStays ==
    [][(mounted /\ HealthyStream /\ last' \in {"reconnectTimer", "watchdogRetry"})
         => wsRef' = wsRef /\ sockets'[wsRef].rs = "OPEN"]_vars

\* C36: price is null exactly when the quote is null, and otherwise price is
\* the number that the price field of the quote stands for and the quote is
\* of an instrument the manager was started with
C36_PriceWithQuote ==
    /\ (price = NullPrice) <=> (tickerData = NullQuote)
    /\ price # NullPrice
          => /\ IsFinite(price)
             /\ price = parseFloat(tickerData.price)
             /\ \E e \in 1..epoch : tickerData.product_id = productIds[e]
====
